---- MODULE Spec2Model ----
(***************************************************************************)
(* A model of lib/librte_eal/linuxapp/igb_uio/igb_uio.c: the UIO driver    *)
(* that exposes one PCI device's BAR and interrupt to user space.          *)
(*                                                                         *)
(* The state is the device's hardware registers, the PCI core's view of    *)
(* the device, the driver's private context (struct rte_uio_pci_dev), the  *)
(* two locks, and one program counter per execution context: the          *)
(* probe/remove thread, one control request (process context) per CPU and  *)
(* one interrupt handler invocation (interrupt context) per CPU.           *)
(***************************************************************************)
EXTENDS Integers, Sequences, FiniteSets, TLC

(* ------------------------------ bounds --------------------------------- *)
\* CPUs on which handler invocations and control requests may run
NumCPU == 2
\* live ioremap mappings the kernel can hold before ioremap returns NULL
MaxIoMaps == 1

(* ------------------------- program constants --------------------------- *)
PCI_MSIX_ENTRY_SIZE == 16
PCI_MSIX_ENTRY_VECTOR_CTRL == 12
PCI_MSIX_ENTRY_CTRL_MASKBIT == 1
IGBUIO_NUM_MSI_VECTORS == 1
IGBUIO_LEGACY_INTR_MODE == 0
IGBUIO_MSI_INTR_MODE == 1
IGBUIO_MSIX_INTR_MODE == 2
igbuio_intr_mode_preferred == IGBUIO_MSIX_INTR_MODE
MAX_UIO_MAPS == 5
UIO_MEM_PHYS == 1
PCI_COMMAND_MEMORY == 2
PCI_COMMAND_MASTER == 4
PCI_COMMAND_INTX_DISABLE == 1024
PCI_STATUS_INTERRUPT == 8
IRQF_SHARED == 128
ENOMEM == 12
ENODEV == 19

(* ------------------------- machine arithmetic -------------------------- *)
\* Bitwise operations on unsigned 16-bit halves; a 32-bit word is the pair
\* of its halves [lo, hi], so a uint16_t cast is .lo and >> 16 is .hi.
RECURSIVE BitAnd(_, _)
BitAnd(a, b) ==
    IF a = 0 \/ b = 0 THEN 0
    ELSE (IF a % 2 = 1 /\ b % 2 = 1 THEN 1 ELSE 0) + 2 * BitAnd(a \div 2, b \div 2)

RECURSIVE BitOr(_, _)
BitOr(a, b) ==
    IF a = 0 THEN b
    ELSE IF b = 0 THEN a
    ELSE (IF a % 2 = 1 \/ b % 2 = 1 THEN 1 ELSE 0) + 2 * BitOr(a \div 2, b \div 2)

Not16(a) == 65535 - a

U32(n) == [lo |-> n % 65536, hi |-> n \div 65536]

And32(x, y) == [lo |-> BitAnd(x.lo, y.lo), hi |-> BitAnd(x.hi, y.hi)]

Or32(x, y) == [lo |-> BitOr(x.lo, y.lo), hi |-> BitOr(x.hi, y.hi)]

Not32(x) == [lo |-> Not16(x.lo), hi |-> Not16(x.hi)]

(* --------------------------- execution contexts ------------------------ *)
Cpus == 1 .. NumCPU

Drv == <<"drv", 0>>

Ctl(c) == <<"ctl", c>>

Irq(c) == <<"irq", c>>

Ctx == {Drv} \cup {Ctl(c) : c \in Cpus} \cup {Irq(c) : c \in Cpus}

Kind(self) == self[1]

\* values user space may write to the irq-control entry point (s32 irq_state)
IrqStates == {0, 1}

\* results pci_enable_msix may report: 0, or a non-zero failure
MsixResults == {0, -ENOMEM}

(* ------------------------------- state --------------------------------- *)
VARIABLES
    hw,         \* device registers: command, status, BAR0, MSI-X table
    posted,     \* MMIO writes issued by writel that have not reached the device
    pci,        \* PCI core state of the device (struct pci_dev)
    udev,       \* the driver context (struct rte_uio_pci_dev)
    uio,        \* what the UIO framework holds after uio_register_device
    lock,       \* contexts holding udev->lock
    cfg,        \* contexts holding the config-space guard (PCI_LOCK)
    pc,         \* position of every context
    loc,        \* local variables of every context
    probe,      \* outcome of the last igbuio_pci_probe
    acqLog,     \* resources the running/last probe acquired, in order
    relLog,     \* resources the running/last probe or remove released, in order
    badRel,     \* releases of a resource that was not held
    calls,      \* the last completed igbuio_set_interrupt_mask call
    handled,    \* IRQ_HANDLED decisions since the last enable request (max 2)
    unguarded,  \* a register access was made without both locks held
    lastReq,    \* enable value of the last igbuio_set_interrupt_mask call begun
    cfgFaults   \* config-space accesses may fail

vars == <<hw, posted, pci, udev, uio, lock, cfg, pc, loc, probe, acqLog, relLog,
          badRel, calls, handled, unguarded, lastReq, cfgFaults>>

VectorCtrlOffset(entry_nr) == entry_nr * PCI_MSIX_ENTRY_SIZE + PCI_MSIX_ENTRY_VECTOR_CTRL

MsixEntries == 0 .. (IGBUIO_NUM_MSI_VECTORS - 1)

\* interrupt numbers: the device's native line, and the vector the PCI core
\* assigns to MSI-X entry e
DevIrq == 11

MsixVector(e) == 40 + e

UioMem0 == [name |-> "", addr |-> 0, internal_addr |-> 0, size |-> 0, memtype |-> 0]

\* kzalloc: every field zero
UdevZero ==
    [alloc |-> "live", mode |-> 0, irq |-> 0, irq_flags |-> 0, handler |-> FALSE,
     irqcontrol |-> FALSE, pdev |-> FALSE,
     mem |-> [i \in 0 .. (MAX_UIO_MAPS - 1) |-> UioMem0],
     msix_entries |-> [v \in MsixEntries |-> [entry |-> 0, vector |-> 0]]]

UdevNone == [UdevZero EXCEPT !.alloc = "none"]

UdevFreed == [UdevZero EXCEPT !.alloc = "freed"]

VectorCtrlOffsets == {VectorCtrlOffset(e) : e \in MsixEntries}

\* the register contents a mask operation can change
HwPattern == [cmd |-> hw.cmd, msix |-> hw.msix]

Pattern0 == [cmd |-> 0, msix |-> [o \in VectorCtrlOffsets |-> U32(0)]]

Loc0 == [state |-> 0, ret |-> "IRQ_NONE", status |-> 0, i |-> 0, mask_bits |-> U32(0),
         old |-> 0, new |-> 0, w |-> 0, before |-> Pattern0]

\* a completed call: its enable value, the hardware writes it issued, the
\* registers before and after it, and whether it is an enable that directly
\* follows a disable made while the source was unmasked (a round trip)
Call0 == [valid |-> FALSE, en |-> FALSE, w |-> 0, before |-> Pattern0, after |-> Pattern0,
          rt |-> FALSE]

NoCalls == [last |-> Call0]

\* enabled: user space has issued a control request with irq_state # 0 since
\* this attach
Probe0 == [run |-> "none", ret |-> 0, stage |-> "none", msix |-> 0, enabled |-> FALSE]

BarConfigs == {[start |-> 4096, len |-> 4096], [start |-> 0, len |-> 4096],
               [start |-> 4096, len |-> 0]}

InitState ==
    /\ hw \in {[cmd |-> c, status |-> 16, bar0 |-> b,
                msix |-> [o \in VectorCtrlOffsets |-> [lo |-> m, hi |-> h]]] :
               c \in {0, PCI_COMMAND_INTX_DISABLE}, b \in BarConfigs,
               m \in {0, 1}, h \in {32768}}
    /\ posted = <<>>
    /\ pci = [enabled |-> FALSE, regions |-> FALSE, msix_enabled |-> FALSE,
              msi_list |-> <<>>, drvdata |-> "NULL", iomaps |-> 0]
    /\ udev = UdevNone
    /\ uio = [registered |-> FALSE, irq |-> 0, irq_flags |-> 0]
    /\ lock = {}
    /\ cfg = {}
    /\ pc = [self \in Ctx |-> IF self = Drv THEN "unbound" ELSE "idle"]
    /\ loc = [self \in Ctx |-> Loc0]
    /\ probe = Probe0
    /\ acqLog = <<>>
    /\ relLog = <<>>
    /\ badRel = {}
    /\ calls = NoCalls
    /\ handled = 0
    /\ unguarded = FALSE
    /\ lastReq = "none"

\* config-space accesses of the device complete
Init == InitState /\ cfgFaults = FALSE

\* config-space accesses of the device may fail
InitFault == InitState /\ cfgFaults = TRUE

(* ----------------------- PCI core / kernel primitives ------------------- *)
\* Each release primitive yields the new PCI-core state, the resources it
\* really released and the resources it was asked to release but were not held.
Seqn(r, n) == [k \in 1 .. n |-> r]

\* pci_disable_msix returns at once when MSI-X is not enabled on the device
pci_disable_msix(p) ==
    IF p.msix_enabled
    THEN [pci |-> [p EXCEPT !.msix_enabled = FALSE, !.msi_list = <<>>],
          log |-> <<"msix">>, bad |-> {}]
    ELSE [pci |-> p, log |-> <<>>, bad |-> {}]

pci_release_regions(p) ==
    IF p.regions
    THEN [pci |-> [p EXCEPT !.regions = FALSE], log |-> <<"regions">>, bad |-> {}]
    ELSE [pci |-> p, log |-> <<>>, bad |-> {"regions"}]

pci_disable_device(p) ==
    IF p.enabled
    THEN [pci |-> [p EXCEPT !.enabled = FALSE], log |-> <<"enable">>, bad |-> {}]
    ELSE [pci |-> p, log |-> <<>>, bad |-> {"enable"}]

kfree(u) ==
    IF u.alloc = "live"
    THEN [udev |-> UdevFreed, log |-> <<"udev">>, bad |-> {}]
    ELSE [udev |-> u, log |-> <<>>, bad |-> {"udev"}]

\* the descriptors pci_enable_msix links into pdev->msi_list: one per entry,
\* its mirror read from the entry's vector-control word
MsiDescs ==
    [k \in 1 .. IGBUIO_NUM_MSI_VECTORS |->
        [entry_nr |-> k - 1, masked |-> hw.msix[VectorCtrlOffset(k - 1)]]]

\* ioremap returns a non-NULL cookie, or NULL (0) when it cannot map
IoremapResults(addr, len) ==
    IF pci.iomaps >= MaxIoMaps THEN {0} ELSE {0, addr + len}

(* --------------------------- resource lifecycle ------------------------ *)
\* igbuio_pci_setup_iomem recording the address before ioremap has answered
igbuio_pci_setup_iomem_early(mem, n, bar, name, va) ==
    LET addr == bar.start
        len == bar.len
    IN IF addr = 0 \/ len = 0
       THEN [ret |-> -1, mem |-> mem, mapped |-> 0, requested |-> FALSE]
       ELSE IF va = 0
       THEN [ret |-> -1, mem |-> [mem EXCEPT ![n].addr = addr, ![n].size = len],
             mapped |-> 0, requested |-> TRUE]
       ELSE [ret |-> 0,
             mem |-> [mem EXCEPT ![n] = [name |-> name, addr |-> addr,
                                          internal_addr |-> va, size |-> len,
                                          memtype |-> UIO_MEM_PHYS]],
             mapped |-> 1, requested |-> TRUE]

\* igbuio_pci_setup_iomem: the region table and status after mapping BAR
\* pci_bar into slot n; va is what ioremap returns if it is called;
\* requested tells whether ioremap is called
igbuio_pci_setup_iomem(mem, n, bar, name, va) ==
    LET addr == bar.start
        len == bar.len
    IN IF addr = 0 \/ len = 0
       THEN [ret |-> -1, mem |-> mem, mapped |-> 0, requested |-> FALSE]
       ELSE IF va = 0
       THEN [ret |-> -1, mem |-> mem, mapped |-> 0, requested |-> TRUE]
       ELSE [ret |-> 0,
             mem |-> [mem EXCEPT ![n] = [name |-> name, addr |-> addr,
                                          internal_addr |-> va, size |-> len,
                                          memtype |-> UIO_MEM_PHYS]],
             mapped |-> 1, requested |-> TRUE]

\* igbuio_pci_release_iomem: the slots whose mapping is released
igbuio_pci_release_iomem(mem) ==
    {i \in 0 .. (MAX_UIO_MAPS - 1) : mem[i].internal_addr # 0}

(* ------------------------------- attach -------------------------------- *)
DrvStep(to) == pc' = [pc EXCEPT ![Drv] = to]

Fail(stage, to) ==
    /\ probe' = [probe EXCEPT !.stage = stage]
    /\ DrvStep(to)

\* lines 263-265: kzalloc
probe_alloc ==
    /\ pc[Drv] = "unbound"
    /\ relLog' = <<>>
    /\ badRel' = {}
    /\ calls' = NoCalls
    /\ handled' = 0
    /\ lastReq' = "none"
    /\ \E ok \in BOOLEAN :
        IF ok
        THEN /\ udev' = UdevZero
             /\ acqLog' = <<"udev">>
             /\ probe' = [Probe0 EXCEPT !.run = "running"]
             /\ DrvStep("p_enable")
        ELSE /\ udev' = UdevNone
             /\ acqLog' = <<>>
             /\ probe' = [Probe0 EXCEPT !.run = "failed", !.ret = -ENOMEM, !.stage = "alloc"]
             /\ UNCHANGED pc
    /\ UNCHANGED <<hw, posted, pci, uio, lock, cfg, loc, unguarded, cfgFaults>>

\* lines 271-274: pci_enable_device
probe_enable ==
    /\ pc[Drv] = "p_enable"
    /\ \E ok \in BOOLEAN :
        IF ok
        THEN /\ pci' = [pci EXCEPT !.enabled = TRUE]
             /\ hw' = [hw EXCEPT !.cmd = BitOr(hw.cmd, PCI_COMMAND_MEMORY)]
             /\ acqLog' = Append(acqLog, "enable")
             /\ DrvStep("p_dma")
             /\ UNCHANGED probe
        ELSE /\ Fail("enable", "fail_free")
             /\ UNCHANGED <<pci, hw, acqLog>>
    /\ UNCHANGED <<posted, udev, uio, lock, cfg, loc, relLog, badRel, calls, handled,
                   unguarded, lastReq, cfgFaults>>

\* lines 278-281: pci_set_dma_mask
probe_dma ==
    /\ pc[Drv] = "p_dma"
    /\ \E ok \in BOOLEAN :
        IF ok THEN DrvStep("p_regions") /\ UNCHANGED probe
        ELSE Fail("dma", "fail_disable")
    /\ UNCHANGED <<hw, posted, pci, udev, uio, lock, cfg, loc, acqLog, relLog, badRel,
                   calls, handled, unguarded, lastReq, cfgFaults>>

\* lines 287-293: pci_request_regions, pci_set_master
probe_regions ==
    /\ pc[Drv] = "p_regions"
    /\ \E ok \in BOOLEAN :
        IF ok
        THEN /\ pci' = [pci EXCEPT !.regions = TRUE]
             /\ hw' = [hw EXCEPT !.cmd = BitOr(hw.cmd, PCI_COMMAND_MASTER)]
             /\ acqLog' = Append(acqLog, "regions")
             /\ DrvStep("p_iomem")
             /\ UNCHANGED probe
        ELSE /\ Fail("regions", "fail_disable")
             /\ UNCHANGED <<pci, hw, acqLog>>
    /\ UNCHANGED <<posted, udev, uio, lock, cfg, loc, relLog, badRel, calls, handled,
                   unguarded, lastReq, cfgFaults>>

\* lines 296-307: map BAR 0 into slot 0 as "config", fill the uio_info
probe_iomem ==
    /\ pc[Drv] = "p_iomem"
    /\ \E va \in IoremapResults(hw.bar0.start, hw.bar0.len) :
        LET r == igbuio_pci_setup_iomem(udev.mem, 0, hw.bar0, "config", va)
        IN IF r.ret # 0
           THEN /\ Fail("iomem", "fail_release_regions")
                /\ UNCHANGED <<udev, pci, acqLog>>
           ELSE /\ udev' = [udev EXCEPT !.mem = r.mem, !.handler = TRUE,
                                        !.irqcontrol = TRUE, !.pdev = TRUE, !.mode = 0]
                /\ pci' = [pci EXCEPT !.iomaps = pci.iomaps + r.mapped]
                /\ acqLog' = acqLog \o Seqn("iomem", r.mapped)
                /\ DrvStep("p_msix")
                /\ UNCHANGED probe
    /\ UNCHANGED <<hw, posted, uio, lock, cfg, loc, relLog, badRel, calls, handled,
                   unguarded, lastReq, cfgFaults>>

\* igbuio_select_mode with the test of pci_enable_msix's result inverted
igbuio_select_mode_inverted(res) ==
    IF res # 0
    THEN [udev |-> [udev EXCEPT !.mode = IGBUIO_MSIX_INTR_MODE,
                         !.msix_entries = [v \in MsixEntries |->
                             [entry |-> v, vector |-> MsixVector(v)]]],
          pci |-> pci, acq |-> <<>>, rel |-> <<>>]
    ELSE [udev |-> [udev EXCEPT !.msix_entries =
                             [v \in MsixEntries |-> [entry |-> v, vector |-> 0]]],
          pci |-> pci, acq |-> <<>>, rel |-> <<>>]

\* lines 310-323: try MSI-X first; res is what pci_enable_msix reports
igbuio_select_mode(res) ==
    IF igbuio_intr_mode_preferred = IGBUIO_MSIX_INTR_MODE
    THEN LET entries == [v \in MsixEntries |-> [entry |-> v, vector |-> 0]]
         IN IF res = 0
            THEN [udev |-> [udev EXCEPT !.mode = IGBUIO_MSIX_INTR_MODE,
                                 !.msix_entries = [v \in MsixEntries |->
                                     [entry |-> v, vector |-> MsixVector(v)]]],
                  pci |-> [pci EXCEPT !.msix_enabled = TRUE, !.msi_list = MsiDescs],
                  acq |-> <<"msix">>, rel |-> <<>>]
            ELSE [udev |-> [udev EXCEPT !.msix_entries = entries],
                  pci |-> pci_disable_msix(pci).pci,
                  acq |-> <<>>, rel |-> pci_disable_msix(pci).log]
    ELSE [udev |-> udev, pci |-> pci, acq |-> <<>>, rel |-> <<>>]

probe_msix ==
    /\ pc[Drv] = "p_msix"
    /\ \E res \in MsixResults :
        LET r == igbuio_select_mode(res)
        IN /\ udev' = r.udev
           /\ pci' = r.pci
           /\ acqLog' = acqLog \o r.acq
           /\ relLog' = relLog \o r.rel
           /\ probe' = [probe EXCEPT !.msix = res]
    /\ DrvStep("p_irqinfo")
    /\ UNCHANGED <<hw, posted, uio, lock, cfg, loc, badRel, calls, handled, unguarded,
                   lastReq, cfgFaults>>

\* igbuio_irq_info with the legacy case leaving irq_flags at 0
igbuio_irq_info_unshared(u) ==
    CASE u.mode = IGBUIO_MSIX_INTR_MODE ->
            [u EXCEPT !.irq_flags = 0, !.irq = u.msix_entries[0].vector]
      [] u.mode = IGBUIO_LEGACY_INTR_MODE -> [u EXCEPT !.irq = DevIrq]
      [] OTHER -> u

\* lines 324-337: the interrupt number and flags for the selected mode
igbuio_irq_info(u) ==
    CASE u.mode = IGBUIO_MSIX_INTR_MODE ->
            [u EXCEPT !.irq_flags = 0, !.irq = u.msix_entries[0].vector]
      [] u.mode = IGBUIO_MSI_INTR_MODE -> u
      [] u.mode = IGBUIO_LEGACY_INTR_MODE ->
            [u EXCEPT !.irq_flags = IRQF_SHARED, !.irq = DevIrq]
      [] OTHER -> u

\* probe_irqinfo without the igbuio_pci_irqcontrol(info, 0) of line 340
probe_irqinfo_nomask ==
    /\ pc[Drv] = "p_irqinfo"
    /\ udev' = igbuio_irq_info(udev)
    /\ pci' = [pci EXCEPT !.drvdata = "udev"]
    /\ DrvStep("p_register")
    /\ UNCHANGED <<hw, posted, uio, lock, cfg, loc, probe, acqLog, relLog, badRel, calls,
                   handled, unguarded, lastReq, cfgFaults>>

\* lines 324-340: switch, pci_set_drvdata, then igbuio_pci_irqcontrol(info, 0)
probe_irqinfo ==
    /\ pc[Drv] = "p_irqinfo"
    /\ udev' = igbuio_irq_info(udev)
    /\ pci' = [pci EXCEPT !.drvdata = "udev"]
    /\ loc' = [loc EXCEPT ![Drv] = [Loc0 EXCEPT !.state = 0]]
    /\ DrvStep("c_lock")
    /\ UNCHANGED <<hw, posted, uio, lock, cfg, probe, acqLog, relLog, badRel, calls,
                   handled, unguarded, lastReq, cfgFaults>>

\* lines 343-348: uio_register_device
probe_register ==
    /\ pc[Drv] = "p_register"
    /\ \E ok \in BOOLEAN :
        IF ok
        THEN /\ uio' = [registered |-> TRUE, irq |-> udev.irq, irq_flags |-> udev.irq_flags]
             /\ probe' = [probe EXCEPT !.run = "ok", !.ret = 0]
             /\ DrvStep("bound")
        ELSE /\ Fail("register", "fail_release_iomem")
             /\ UNCHANGED uio
    /\ UNCHANGED <<hw, posted, pci, udev, lock, cfg, loc, acqLog, relLog, badRel, calls,
                   handled, unguarded, lastReq, cfgFaults>>

\* fail_release_iomem without the pci_disable_msix of line 353
fail_release_iomem_keep_msix ==
    /\ pc[Drv] = "fail_release_iomem"
    /\ LET n == Cardinality(igbuio_pci_release_iomem(udev.mem))
       IN /\ pci' = [pci EXCEPT !.iomaps = pci.iomaps - n]
          /\ relLog' = relLog \o Seqn("iomem", n)
    /\ DrvStep("fail_release_regions")
    /\ UNCHANGED <<hw, posted, udev, uio, lock, cfg, loc, probe, acqLog, badRel, calls,
                   handled, unguarded, lastReq, cfgFaults>>

\* fail_release_iomem with pci_disable_msix ahead of igbuio_pci_release_iomem
fail_release_iomem_msix_first ==
    /\ pc[Drv] = "fail_release_iomem"
    /\ LET n == Cardinality(igbuio_pci_release_iomem(udev.mem))
           m == IF udev.mode = IGBUIO_MSIX_INTR_MODE
                THEN pci_disable_msix(pci)
                ELSE [pci |-> pci, log |-> <<>>, bad |-> {}]
       IN /\ pci' = [m.pci EXCEPT !.iomaps = pci.iomaps - n]
          /\ relLog' = relLog \o m.log \o Seqn("iomem", n)
    /\ DrvStep("fail_release_regions")
    /\ UNCHANGED <<hw, posted, udev, uio, lock, cfg, loc, probe, acqLog, badRel, calls,
                   handled, unguarded, lastReq, cfgFaults>>

\* lines 350-353
fail_release_iomem ==
    /\ pc[Drv] = "fail_release_iomem"
    /\ LET n == Cardinality(igbuio_pci_release_iomem(udev.mem))
           m == IF udev.mode = IGBUIO_MSIX_INTR_MODE
                THEN pci_disable_msix(pci)
                ELSE [pci |-> pci, log |-> <<>>, bad |-> {}]
       IN /\ pci' = [m.pci EXCEPT !.iomaps = pci.iomaps - n]
          /\ relLog' = relLog \o Seqn("iomem", n) \o m.log
    /\ DrvStep("fail_release_regions")
    /\ UNCHANGED <<hw, posted, udev, uio, lock, cfg, loc, probe, acqLog, badRel, calls,
                   handled, unguarded, lastReq, cfgFaults>>

\* lines 354-355
fail_release_regions ==
    /\ pc[Drv] = "fail_release_regions"
    /\ LET r == pci_release_regions(pci)
       IN /\ pci' = r.pci
          /\ relLog' = relLog \o r.log
          /\ badRel' = badRel \cup r.bad
    /\ DrvStep("fail_disable")
    /\ UNCHANGED <<hw, posted, udev, uio, lock, cfg, loc, probe, acqLog, calls, handled,
                   unguarded, lastReq, cfgFaults>>

\* lines 356-357: pci_disable_device also clears bus mastering
fail_disable ==
    /\ pc[Drv] = "fail_disable"
    /\ LET r == pci_disable_device(pci)
       IN /\ pci' = r.pci
          /\ relLog' = relLog \o r.log
          /\ badRel' = badRel \cup r.bad
    /\ hw' = [hw EXCEPT !.cmd = BitAnd(hw.cmd, Not16(PCI_COMMAND_MASTER))]
    /\ DrvStep("fail_free")
    /\ UNCHANGED <<posted, udev, uio, lock, cfg, loc, probe, acqLog, calls, handled,
                   unguarded, lastReq, cfgFaults>>

\* lines 358-361: kfree, return -ENODEV
fail_free ==
    /\ pc[Drv] = "fail_free"
    /\ LET r == kfree(udev)
       IN /\ udev' = r.udev
          /\ relLog' = relLog \o r.log
          /\ badRel' = badRel \cup r.bad
    /\ probe' = [probe EXCEPT !.run = "failed", !.ret = -ENODEV]
    /\ DrvStep("unbound")
    /\ UNCHANGED <<hw, posted, pci, uio, lock, cfg, loc, acqLog, calls, handled,
                   unguarded, lastReq, cfgFaults>>

(* -------------------------------- locks -------------------------------- *)
\* a process context does not run while the handler runs on its CPU
Runnable(self) == Kind(self) = "ctl" => pc[Irq(self[2])] = "idle"

CtxStep(self, to, l) ==
    /\ pc' = [pc EXCEPT ![self] = to]
    /\ loc' = [loc EXCEPT ![self] = l]

\* spin_lock_irqsave that does not wait for the holder
spin_lock_irqsave_nowait(self) == lock' = lock \cup {self}

\* spin_lock_irqsave(&udev->lock, flags): spins until the lock is free
spin_lock_irqsave(self) ==
    /\ lock = {}
    /\ lock' = lock \cup {self}

spin_unlock_irqrestore(self) == lock' = lock \ {self}

\* PCI_LOCK(pdev): marks config space blocked; does not itself wait
PCI_LOCK(self) == cfg' = cfg \cup {self}

PCI_UNLOCK(self) == cfg' = cfg \ {self}

\* a register access by self is guarded when self holds both locks
Access(self) == unguarded' = (unguarded \/ ~(self \in lock /\ self \in cfg))

(* ------------------------- interrupt mask controller ------------------- *)
MaskBitSet(word) == BitAnd(word.lo, PCI_MSIX_ENTRY_CTRL_MASKBIT) # 0

IntxDisabled(cmd) == BitAnd(cmd, PCI_COMMAND_INTX_DISABLE) # 0

\* whether the registers p hold the active mode's interrupt source masked
PatternMasked(p) ==
    IF udev.mode = IGBUIO_MSIX_INTR_MODE
    THEN \A o \in VectorCtrlOffsets : MaskBitSet(p.msix[o])
    ELSE IntxDisabled(p.cmd)

AfterMask(self) == IF Kind(self) = "irq" THEN "h_handled" ELSE "c_pciunlock"

\* igbuio_set_interrupt_mask returns (line 152)
MaskDone(self, l) ==
    /\ calls' = [last |-> [valid |-> TRUE, en |-> (l.state # 0), w |-> l.w,
                           before |-> l.before, after |-> HwPattern',
                           rt |-> /\ l.state # 0
                                  /\ calls.last.valid
                                  /\ ~calls.last.en
                                  /\ ~PatternMasked(calls.last.before)]]
    /\ CtxStep(self, AfterMask(self), l)

\* lines 128-137: dispatch on udev->mode
set_mask_enter(self) ==
    /\ pc[self] = "mask"
    /\ Runnable(self)
    /\ lastReq' = IF loc[self].state # 0 THEN "enable" ELSE "disable"
    /\ handled' = IF loc[self].state # 0 THEN 0 ELSE handled
    /\ UNCHANGED <<hw, posted, pci, udev, uio, lock, cfg, probe, acqLog, relLog, badRel,
                   unguarded, cfgFaults>>
    /\ LET l == [loc[self] EXCEPT !.w = 0, !.before = HwPattern, !.i = 1]
       IN IF udev.mode = IGBUIO_MSIX_INTR_MODE
          THEN IF Len(pci.msi_list) = 0
               THEN MaskDone(self, l)
               ELSE CtxStep(self, "msix_mask", l) /\ UNCHANGED calls
          ELSE IF udev.mode = IGBUIO_LEGACY_INTR_MODE
          THEN CtxStep(self, "cfg_read", l) /\ UNCHANGED calls
          ELSE MaskDone(self, l)

\* lines 133-135: the next descriptor of pdev->msi_list, or return
NextDesc(self, l) ==
    IF l.i < Len(pci.msi_list)
    THEN CtxStep(self, "msix_mask", [l EXCEPT !.i = l.i + 1]) /\ UNCHANGED calls
    ELSE MaskDone(self, l)

\* igbuio_msix_mask_bits building the word from the mask bit alone
igbuio_msix_mask_bits_fresh(masked, state) ==
    IF state # 0 THEN U32(0) ELSE U32(PCI_MSIX_ENTRY_CTRL_MASKBIT)

\* lines 96-103: the vector-control word wanted for state
igbuio_msix_mask_bits(masked, state) ==
    IF state # 0
    THEN And32(masked, Not32(U32(PCI_MSIX_ENTRY_CTRL_MASKBIT)))
    ELSE Or32(masked, U32(PCI_MSIX_ENTRY_CTRL_MASKBIT))

\* igbuio_msix_changed without the comparison with the mirror
igbuio_msix_changed_always(mask_bits, masked) == TRUE

\* line 105: whether the word must be written
igbuio_msix_changed(mask_bits, masked) == mask_bits # masked

\* igbuio_msix_mask_irq lines 96-106: compare with the mirror, writel
msix_mask_irq(self) ==
    /\ pc[self] = "msix_mask"
    /\ Runnable(self)
    /\ Access(self)
    /\ LET desc == pci.msi_list[loc[self].i]
           mask_bits == igbuio_msix_mask_bits(desc.masked, loc[self].state)
           offset == VectorCtrlOffset(desc.entry_nr)
       IN IF igbuio_msix_changed(mask_bits, desc.masked)
          THEN /\ posted' = Append(posted, [off |-> offset, val |-> mask_bits])
               /\ CtxStep(self, "msix_readl",
                          [loc[self] EXCEPT !.mask_bits = mask_bits, !.w = loc[self].w + 1])
               /\ UNCHANGED <<hw, calls>>
          ELSE /\ UNCHANGED <<posted, hw>>
               /\ NextDesc(self, loc[self])
    /\ UNCHANGED <<pci, udev, uio, lock, cfg, probe, acqLog, relLog, badRel, handled,
                   lastReq, cfgFaults>>

\* the MSI-X table after the posted writes q have reached the device
RECURSIVE ApplyPosted(_, _)
ApplyPosted(table, q) ==
    IF q = <<>> THEN table
    ELSE ApplyPosted(IF Head(q).off \in DOMAIN table
                     THEN [table EXCEPT ![Head(q).off] = Head(q).val]
                     ELSE table,
                     Tail(q))

\* msix_readl without the read that flushes the posted write
msix_readl_noflush(self) ==
    /\ pc[self] = "msix_readl"
    /\ Runnable(self)
    /\ Access(self)
    /\ CtxStep(self, "msix_mirror", loc[self])
    /\ UNCHANGED <<hw, posted, pci, udev, uio, lock, cfg, probe, acqLog, relLog, badRel,
                   calls, handled, lastReq, cfgFaults>>

\* line 107: readl(desc->mask_base) completes every write posted before it
msix_readl(self) ==
    /\ pc[self] = "msix_readl"
    /\ Runnable(self)
    /\ Access(self)
    /\ hw' = [hw EXCEPT !.msix = ApplyPosted(hw.msix, posted)]
    /\ posted' = <<>>
    /\ CtxStep(self, "msix_mirror", loc[self])
    /\ UNCHANGED <<pci, udev, uio, lock, cfg, probe, acqLog, relLog, badRel, calls,
                   handled, lastReq, cfgFaults>>

\* line 108: desc->masked = mask_bits
msix_mirror(self) ==
    /\ pc[self] = "msix_mirror"
    /\ Runnable(self)
    /\ Access(self)
    /\ pci' = [pci EXCEPT !.msi_list[loc[self].i].masked = loc[self].mask_bits]
    /\ UNCHANGED <<hw, posted>>
    /\ IF loc[self].i < Len(pci.msi_list)
       THEN CtxStep(self, "msix_mask", [loc[self] EXCEPT !.i = loc[self].i + 1])
            /\ UNCHANGED calls
       ELSE MaskDone(self, loc[self])
    /\ UNCHANGED <<udev, uio, lock, cfg, probe, acqLog, relLog, badRel, handled,
                   lastReq, cfgFaults>>

\* a posted MMIO write reaches the device on its own
PostedLand ==
    /\ posted # <<>>
    /\ hw' = [hw EXCEPT !.msix = ApplyPosted(hw.msix, <<Head(posted)>>)]
    /\ posted' = Tail(posted)
    /\ UNCHANGED <<pci, udev, uio, lock, cfg, pc, loc, probe, acqLog, relLog, badRel,
                   calls, handled, unguarded, lastReq, cfgFaults>>

\* pci_read_config_dword(pdev, PCI_COMMAND, &v): the values v may hold after
\* the call; a failed access leaves all ones
ConfigReadDword ==
    {[lo |-> hw.cmd, hi |-> hw.status]} \cup
    (IF cfgFaults THEN {[lo |-> 65535, hi |-> 65535]} ELSE {})

\* lines 143-146: the command value wanted for state
igbuio_legacy_new(old, state) ==
    IF state # 0
    THEN BitAnd(old, Not16(PCI_COMMAND_INTX_DISABLE))
    ELSE BitOr(old, PCI_COMMAND_INTX_DISABLE)

\* lines 141-146: read the command/status dword, derive old and new
legacy_read(self) ==
    /\ pc[self] = "cfg_read"
    /\ Runnable(self)
    /\ Access(self)
    /\ \E status \in ConfigReadDword :
        LET old == status.lo
        IN CtxStep(self, "cfg_write",
                   [loc[self] EXCEPT !.old = old,
                                     !.new = igbuio_legacy_new(old, loc[self].state)])
    /\ UNCHANGED <<hw, posted, pci, udev, uio, lock, cfg, probe, acqLog, relLog, badRel,
                   calls, handled, lastReq, cfgFaults>>

\* line 148: whether the command register must be written back
igbuio_legacy_changed(old, new) == old # new

\* lines 148-152: pci_write_config_word(pdev, PCI_COMMAND, new) if changed
legacy_write(self) ==
    /\ pc[self] = "cfg_write"
    /\ Runnable(self)
    /\ Access(self)
    /\ IF igbuio_legacy_changed(loc[self].old, loc[self].new)
       THEN /\ \E done \in (IF cfgFaults THEN BOOLEAN ELSE {TRUE}) :
                hw' = IF done THEN [hw EXCEPT !.cmd = loc[self].new] ELSE hw
            /\ MaskDone(self, [loc[self] EXCEPT !.w = loc[self].w + 1])
       ELSE /\ UNCHANGED hw
            /\ MaskDone(self, loc[self])
    /\ UNCHANGED <<posted, pci, udev, uio, lock, cfg, probe, acqLog, relLog, badRel,
                   handled, lastReq, cfgFaults>>

(* ---------------------------- control request -------------------------- *)
\* user space writes irq_state to the UIO device: igbuio_pci_irqcontrol begins
irqcontrol_call(c, irq_state) ==
    /\ uio.registered
    /\ pc[Ctl(c)] = "idle"
    /\ Runnable(Ctl(c))
    /\ CtxStep(Ctl(c), "c_lock", [Loc0 EXCEPT !.state = irq_state])
    /\ probe' = [probe EXCEPT !.enabled = (probe.enabled \/ irq_state # 0)]
    /\ UNCHANGED <<hw, posted, pci, udev, uio, lock, cfg, acqLog, relLog, badRel,
                   calls, handled, unguarded, lastReq, cfgFaults>>

\* line 175
irqcontrol_lock(self) ==
    /\ pc[self] = "c_lock"
    /\ Runnable(self)
    /\ spin_lock_irqsave(self)
    /\ CtxStep(self, "c_pcilock", loc[self])
    /\ UNCHANGED <<hw, posted, pci, udev, uio, cfg, probe, acqLog, relLog, badRel,
                   calls, handled, unguarded, lastReq, cfgFaults>>

\* lines 176-178
irqcontrol_pcilock(self) ==
    /\ pc[self] = "c_pcilock"
    /\ Runnable(self)
    /\ PCI_LOCK(self)
    /\ CtxStep(self, "mask", loc[self])
    /\ UNCHANGED <<hw, posted, pci, udev, uio, lock, probe, acqLog, relLog, badRel,
                   calls, handled, unguarded, lastReq, cfgFaults>>

\* line 180
irqcontrol_pciunlock(self) ==
    /\ pc[self] = "c_pciunlock"
    /\ Runnable(self)
    /\ PCI_UNLOCK(self)
    /\ CtxStep(self, "c_unlock", loc[self])
    /\ UNCHANGED <<hw, posted, pci, udev, uio, lock, probe, acqLog, relLog, badRel,
                   calls, handled, unguarded, lastReq, cfgFaults>>

\* lines 181-183: unlock and return 0 (to probe when probe made the call)
irqcontrol_unlock(self) ==
    /\ pc[self] = "c_unlock"
    /\ Runnable(self)
    /\ spin_unlock_irqrestore(self)
    /\ CtxStep(self, IF self = Drv THEN "p_register" ELSE "idle", Loc0)
    /\ UNCHANGED <<hw, posted, pci, udev, uio, cfg, probe, acqLog, relLog, badRel,
                   calls, handled, unguarded, lastReq, cfgFaults>>

(* --------------------------- interrupt handler ------------------------- *)
\* the registered line fires: a shared line may fire for another device at
\* any time; an MSI-X vector sends its message only while it is unmasked
IrqRaised ==
    IF uio.irq_flags = IRQF_SHARED THEN TRUE
    ELSE \E o \in VectorCtrlOffsets : ~MaskBitSet(hw.msix[o])

\* irqhandler_call on a CPU whose interrupts the lock holder did not disable
irqhandler_call_irqs_on(c) ==
    /\ uio.registered
    /\ IrqRaised
    /\ pc[Irq(c)] = "idle"
    /\ CtxStep(Irq(c), "h_lock", Loc0)
    /\ UNCHANGED <<hw, posted, pci, udev, uio, lock, cfg, probe, acqLog, relLog, badRel,
                   calls, handled, unguarded, lastReq, cfgFaults>>

\* the interrupt is delivered on CPU c, whose interrupts are enabled
irqhandler_call(c) ==
    /\ uio.registered
    /\ IrqRaised
    /\ pc[Irq(c)] = "idle"
    /\ Ctl(c) \notin lock
    /\ CtxStep(Irq(c), "h_lock", Loc0)
    /\ UNCHANGED <<hw, posted, pci, udev, uio, lock, cfg, probe, acqLog, relLog, badRel,
                   calls, handled, unguarded, lastReq, cfgFaults>>

\* irqhandler_lock without taking udev->lock
irqhandler_lock_skipped(self) ==
    /\ pc[self] = "h_lock"
    /\ CtxStep(self, "h_pcilock", loc[self])
    /\ UNCHANGED <<hw, posted, pci, udev, uio, lock, cfg, probe, acqLog, relLog, badRel,
                   calls, handled, unguarded, lastReq, cfgFaults>>

\* line 200
irqhandler_lock(self) ==
    /\ pc[self] = "h_lock"
    /\ spin_lock_irqsave(self)
    /\ CtxStep(self, "h_pcilock", loc[self])
    /\ UNCHANGED <<hw, posted, pci, udev, uio, cfg, probe, acqLog, relLog, badRel,
                   calls, handled, unguarded, lastReq, cfgFaults>>

\* line 202
irqhandler_pcilock(self) ==
    /\ pc[self] = "h_pcilock"
    /\ PCI_LOCK(self)
    /\ CtxStep(self, "h_check", loc[self])
    /\ UNCHANGED <<hw, posted, pci, udev, uio, lock, probe, acqLog, relLog, badRel,
                   calls, handled, unguarded, lastReq, cfgFaults>>

\* igbuio_irq_is_ours without the test of the pending bit
igbuio_irq_is_ours_always(status) == TRUE

\* line 209: the interrupt is ours when the status word has the pending bit
igbuio_irq_is_ours(status) == BitAnd(status, PCI_STATUS_INTERRUPT) # 0

\* irqhandler_check without the call of igbuio_set_interrupt_mask
irqhandler_check_nomask(self) ==
    /\ pc[self] = "h_check"
    /\ IF udev.mode = IGBUIO_LEGACY_INTR_MODE
       THEN /\ Access(self)
            /\ \E cmd_status_dword \in ConfigReadDword :
                LET status == cmd_status_dword.hi
                IN IF BitAnd(status, PCI_STATUS_INTERRUPT) = 0
                   THEN CtxStep(self, "h_pciunlock", [loc[self] EXCEPT !.status = status])
                   ELSE CtxStep(self, "h_handled", [loc[self] EXCEPT !.status = status])
       ELSE /\ UNCHANGED unguarded
            /\ CtxStep(self, "h_handled", loc[self])
    /\ UNCHANGED <<hw, posted, pci, udev, uio, lock, cfg, probe, acqLog, relLog, badRel,
                   calls, handled, lastReq, cfgFaults>>

\* lines 205-213: in legacy mode leave when the interrupt is not ours,
\* otherwise call igbuio_set_interrupt_mask(udev, 0)
irqhandler_check(self) ==
    /\ pc[self] = "h_check"
    /\ IF udev.mode = IGBUIO_LEGACY_INTR_MODE
       THEN /\ Access(self)
            /\ \E cmd_status_dword \in ConfigReadDword :
                LET status == cmd_status_dword.hi
                IN IF ~igbuio_irq_is_ours(status)
                   THEN CtxStep(self, "h_pciunlock", [loc[self] EXCEPT !.status = status])
                   ELSE CtxStep(self, "mask",
                                [loc[self] EXCEPT !.status = status, !.state = 0])
       ELSE /\ UNCHANGED unguarded
            /\ CtxStep(self, "mask", [loc[self] EXCEPT !.state = 0])
    /\ UNCHANGED <<hw, posted, pci, udev, uio, lock, cfg, probe, acqLog, relLog, badRel,
                   calls, handled, lastReq, cfgFaults>>

\* line 214: ret = IRQ_HANDLED
irqhandler_handled(self) ==
    /\ pc[self] = "h_handled"
    /\ handled' = IF handled < 2 THEN handled + 1 ELSE handled
    /\ CtxStep(self, "h_pciunlock", [loc[self] EXCEPT !.ret = "IRQ_HANDLED"])
    /\ UNCHANGED <<hw, posted, pci, udev, uio, lock, cfg, probe, acqLog, relLog, badRel,
                   calls, unguarded, lastReq, cfgFaults>>

\* irqhandler_pciunlock releasing udev->lock where the guard is to be released
irqhandler_pciunlock_swapped(self) ==
    /\ pc[self] = "h_pciunlock"
    /\ spin_unlock_irqrestore(self)
    /\ CtxStep(self, "h_unlock", loc[self])
    /\ UNCHANGED <<hw, posted, pci, udev, uio, cfg, probe, acqLog, relLog, badRel,
                   calls, handled, unguarded, lastReq, cfgFaults>>

\* line 217
irqhandler_pciunlock(self) ==
    /\ pc[self] = "h_pciunlock"
    /\ PCI_UNLOCK(self)
    /\ CtxStep(self, "h_unlock", loc[self])
    /\ UNCHANGED <<hw, posted, pci, udev, uio, lock, probe, acqLog, relLog, badRel,
                   calls, handled, unguarded, lastReq, cfgFaults>>

\* lines 218-221: unlock, printk, return ret
irqhandler_unlock(self) ==
    /\ pc[self] = "h_unlock"
    /\ spin_unlock_irqrestore(self)
    /\ CtxStep(self, "idle", Loc0)
    /\ UNCHANGED <<hw, posted, pci, udev, uio, cfg, probe, acqLog, relLog, badRel,
                   calls, handled, unguarded, lastReq, cfgFaults>>

(* ------------------------------ the device ----------------------------- *)
\* the device raises its interrupt condition: the status pending bit is set
HwRaise ==
    /\ uio.registered
    /\ BitAnd(hw.status, PCI_STATUS_INTERRUPT) = 0
    /\ hw' = [hw EXCEPT !.status = BitOr(hw.status, PCI_STATUS_INTERRUPT)]
    /\ UNCHANGED <<posted, pci, udev, uio, lock, cfg, pc, loc, probe, acqLog, relLog,
                   badRel, calls, handled, unguarded, lastReq, cfgFaults>>

\* user space services the device through the mapped BAR: the condition clears
HwService ==
    /\ BitAnd(hw.status, PCI_STATUS_INTERRUPT) # 0
    /\ hw' = [hw EXCEPT !.status = BitAnd(hw.status, Not16(PCI_STATUS_INTERRUPT))]
    /\ UNCHANGED <<posted, pci, udev, uio, lock, cfg, pc, loc, probe, acqLog, relLog,
                   badRel, calls, handled, unguarded, lastReq, cfgFaults>>

(* ------------------------------- detach -------------------------------- *)
\* remove_unregister leaving the device registered with the UIO framework
remove_unregister_skipped ==
    /\ pc[Drv] = "bound"
    /\ relLog' = <<>>
    /\ badRel' = {}
    /\ calls' = NoCalls
    /\ handled' = 0
    /\ lastReq' = "none"
    /\ DrvStep("r_release")
    /\ UNCHANGED <<hw, posted, pci, udev, uio, lock, cfg, loc, probe, acqLog, unguarded,
                   cfgFaults>>

\* lines 367-369: uio_unregister_device returns once no handler invocation or
\* control request on the device is in flight, and none starts afterwards
remove_unregister ==
    /\ pc[Drv] = "bound"
    /\ \A self \in Ctx \ {Drv} : pc[self] = "idle"
    /\ uio' = [uio EXCEPT !.registered = FALSE]
    /\ relLog' = <<>>
    /\ badRel' = {}
    /\ calls' = NoCalls
    /\ handled' = 0
    /\ lastReq' = "none"
    /\ DrvStep("r_release")
    /\ UNCHANGED <<hw, posted, pci, udev, lock, cfg, loc, probe, acqLog, unguarded,
                   cfgFaults>>

\* lines 370-375
remove_release ==
    /\ pc[Drv] = "r_release"
    /\ LET m == IF udev.mode = IGBUIO_MSIX_INTR_MODE
                THEN pci_disable_msix(pci)
                ELSE [pci |-> pci, log |-> <<>>, bad |-> {}]
           r == pci_release_regions(m.pci)
           d == pci_disable_device(r.pci)
           k == kfree(udev)
       IN /\ pci' = [d.pci EXCEPT !.drvdata = "NULL"]
          /\ udev' = k.udev
          /\ relLog' = relLog \o m.log \o r.log \o d.log \o k.log
          /\ badRel' = badRel \cup r.bad \cup d.bad \cup k.bad
    /\ hw' = [hw EXCEPT !.cmd = BitAnd(hw.cmd, Not16(PCI_COMMAND_MASTER))]
    /\ DrvStep("unbound")
    /\ UNCHANGED <<posted, uio, lock, cfg, loc, probe, acqLog, calls, handled,
                   unguarded, lastReq, cfgFaults>>

\* igbuio_pci_remove entered for a device with no completed attach. info is
\* pci_get_drvdata(dev): NULL when attach never set it or detach cleared it,
\* so info->priv (line 368) faults; or the context a failed attach freed, so
\* the read of ->mode either faults or yields a stale mode, after which lines
\* 369-375 run against resources that are not held.
remove_unattached ==
    /\ pc[Drv] = "unbound"
    /\ calls' = NoCalls
    /\ handled' = 0
    /\ lastReq' = "none"
    /\ IF pci.drvdata = "NULL"
       THEN /\ DrvStep("r_fault")
            /\ relLog' = <<>>
            /\ badRel' = {}
            /\ UNCHANGED <<pci, udev, hw>>
       ELSE \E fault \in BOOLEAN, mode \in {IGBUIO_LEGACY_INTR_MODE, IGBUIO_MSIX_INTR_MODE} :
            IF fault
            THEN /\ DrvStep("r_fault")
                 /\ relLog' = <<>>
                 /\ badRel' = {}
                 /\ UNCHANGED <<pci, udev, hw>>
            ELSE LET m == IF mode = IGBUIO_MSIX_INTR_MODE
                          THEN pci_disable_msix(pci)
                          ELSE [pci |-> pci, log |-> <<>>, bad |-> {}]
                     r == pci_release_regions(m.pci)
                     d == pci_disable_device(r.pci)
                     k == kfree(udev)
                 IN /\ pci' = [d.pci EXCEPT !.drvdata = "NULL"]
                    /\ udev' = k.udev
                    /\ relLog' = m.log \o r.log \o d.log \o k.log
                    /\ badRel' = r.bad \cup d.bad \cup k.bad
                    /\ hw' = [hw EXCEPT !.cmd = BitAnd(hw.cmd, Not16(PCI_COMMAND_MASTER))]
                    /\ UNCHANGED pc
    /\ UNCHANGED <<posted, uio, lock, cfg, loc, probe, acqLog, unguarded, cfgFaults>>

(* ----------------------------- specification --------------------------- *)
igbuio_pci_probe ==
    \/ probe_alloc \/ probe_enable \/ probe_dma \/ probe_regions \/ probe_iomem
    \/ probe_msix \/ probe_irqinfo \/ probe_register
    \/ fail_release_iomem \/ fail_release_regions \/ fail_disable \/ fail_free

igbuio_pci_remove == remove_unregister \/ remove_release

igbuio_set_interrupt_mask(self) ==
    \/ set_mask_enter(self) \/ msix_mask_irq(self) \/ msix_readl(self)
    \/ msix_mirror(self) \/ legacy_read(self) \/ legacy_write(self)

igbuio_pci_irqcontrol(self) ==
    \/ irqcontrol_lock(self) \/ irqcontrol_pcilock(self)
    \/ irqcontrol_pciunlock(self) \/ irqcontrol_unlock(self)

igbuio_pci_irqhandler(self) ==
    \/ irqhandler_lock(self) \/ irqhandler_pcilock(self) \/ irqhandler_check(self)
    \/ irqhandler_handled(self) \/ irqhandler_pciunlock(self)
    \/ irqhandler_unlock(self)

Next ==
    \/ igbuio_pci_probe
    \/ igbuio_pci_remove
    \/ \E c \in Cpus, s \in IrqStates : irqcontrol_call(c, s)
    \/ \E c \in Cpus : irqhandler_call(c)
    \/ \E self \in Ctx : igbuio_set_interrupt_mask(self)
    \/ \E self \in Ctx : igbuio_pci_irqcontrol(self)
    \/ \E self \in Ctx : igbuio_pci_irqhandler(self)
    \/ PostedLand
    \/ HwRaise
    \/ HwService

Spec == Init /\ [][Next]_vars

\* the driver when the PCI core may also call .remove on a device that has
\* no completed attach
NextDetach == Next \/ remove_unattached

SpecDetach == Init /\ [][NextDetach]_vars

\* the steps of context self once its handler invocation or control request
\* has started
CtxNext(self) ==
    igbuio_set_interrupt_mask(self) \/ igbuio_pci_irqcontrol(self)
    \/ igbuio_pci_irqhandler(self)

\* fair scheduling: a CPU that can again and again execute the next
\* instruction of its handler invocation or control request does execute it
\* (the lock is handed to every spinning CPU in turn, and a CPU returns to
\* its process context between interrupts)
SpecLive == Init /\ [][Next]_vars /\ \A self \in Ctx \ {Drv} : SF_vars(CtxNext(self))

\* the driver on a bus whose config-space accesses may fail
SpecFault == InitFault /\ [][Next]_vars

(* -------------------------------- claims ------------------------------- *)
\* positions of the probe thread after the interrupt mode has been selected
\* and before attach has failed or detach has begun
ModeSelected ==
    pc[Drv] \in {"p_irqinfo", "c_lock", "c_pcilock", "mask", "msix_mask", "msix_readl",
                 "msix_mirror", "cfg_read", "cfg_write", "c_pciunlock", "c_unlock",
                 "p_register", "bound"}

FatalStages == {"alloc", "enable", "dma", "regions", "iomem", "register"}

\* C1: attach selects the mode from the result of the one pci_enable_msix
\* call: result 0 gives MSIX with exactly one vector descriptor; any other
\* result gives Legacy with no MSI-X allocation left, and attach goes on (no
\* failure stage is the MSI-X stage); MSI is never selected.
C1_ModeSelection ==
    /\ ModeSelected =>
        /\ probe.msix = 0 =>
            /\ udev.mode = IGBUIO_MSIX_INTR_MODE
            /\ pci.msix_enabled
            /\ Len(pci.msi_list) = 1
            /\ pci.msi_list[1].entry_nr = 0
        /\ probe.msix # 0 =>
            /\ udev.mode = IGBUIO_LEGACY_INTR_MODE
            /\ ~pci.msix_enabled
            /\ pci.msi_list = <<>>
        /\ probe.stage = "none"
    /\ udev.mode # IGBUIO_MSI_INTR_MODE
    /\ probe.run = "failed" => probe.stage \in FatalStages

\* attach completed in Legacy mode after pci_enable_msix failed
C1_Witness ==
    /\ pc[Drv] = "bound"
    /\ probe.run = "ok"
    /\ probe.msix # 0
    /\ udev.mode = IGBUIO_LEGACY_INTR_MODE

MappedSlots == {i \in 0 .. (MAX_UIO_MAPS - 1) : udev.mem[i].internal_addr # 0}

\* C2: after a successful attach the UIO framework holds the interrupt
\* number and flags of the selected mode (MSIX: the vector assigned to entry
\* 0, not shareable; Legacy: the native line, shareable), and slot 0 is the
\* one mapped region, named "config".
C2_Registration ==
    pc[Drv] = "bound" =>
        /\ uio.registered
        /\ udev.mode = IGBUIO_MSIX_INTR_MODE =>
            /\ uio.irq = MsixVector(0)
            /\ uio.irq = udev.msix_entries[0].vector
            /\ udev.msix_entries[0].entry = 0
            /\ BitAnd(uio.irq_flags, IRQF_SHARED) = 0
        /\ udev.mode = IGBUIO_LEGACY_INTR_MODE =>
            /\ uio.irq = DevIrq
            /\ BitAnd(uio.irq_flags, IRQF_SHARED) # 0
        /\ MappedSlots = {0}
        /\ udev.mem[0].name = "config"
        /\ udev.mem[0].addr = hw.bar0.start
        /\ udev.mem[0].size = hw.bar0.len

\* attach completed in MSIX mode with BAR 0 mapped
C2_Witness ==
    /\ pc[Drv] = "bound"
    /\ udev.mode = IGBUIO_MSIX_INTR_MODE
    /\ uio.irq = MsixVector(0)
    /\ udev.mem[0].name = "config"

\* the interrupt source of the attached device is masked: in MSIX mode the
\* mask bit of every descriptor is set in the table and in the mirror, in
\* Legacy mode the INTx-disable bit of the command register is set
SourceMasked ==
    IF udev.mode = IGBUIO_MSIX_INTR_MODE
    THEN \A k \in 1 .. Len(pci.msi_list) :
            /\ MaskBitSet(hw.msix[VectorCtrlOffset(pci.msi_list[k].entry_nr)])
            /\ MaskBitSet(pci.msi_list[k].masked)
    ELSE IntxDisabled(hw.cmd)

\* C3 as stated: once the handler has decided IRQ_HANDLED the source is
\* masked and stays masked until a control request with enable = true, and
\* the handler does not decide IRQ_HANDLED a second time before that request.
C3_Original ==
    /\ handled >= 1 => SourceMasked
    /\ handled <= 1

\* C3, amended: once the handler has decided IRQ_HANDLED the source is masked
\* and stays masked until a control request with enable = true begins its
\* mask operation; a handler invocation that decides IRQ_HANDLED again before
\* that request has issued no hardware write.
C3_MaskedUntilEnable ==
    /\ handled >= 1 => SourceMasked
    /\ \A c \in Cpus :
        (pc[Irq(c)] = "h_handled" /\ handled >= 1) => loc[Irq(c)].w = 0

\* the handler decided IRQ_HANDLED twice with no enable request in between,
\* every context has returned and the source is masked
C3_Witness ==
    /\ handled = 2
    /\ lock = {}
    /\ SourceMasked
    /\ pc[Drv] = "bound"

PendingClear == BitAnd(hw.status, PCI_STATUS_INTERRUPT) = 0

\* C4: in Legacy mode a handler invocation that reads the status with the
\* pending bit clear goes straight to the exit with IRQ_NONE and without
\* touching any register or mirror; it then releases the config-space guard,
\* then the lock, and returns IRQ_NONE having written nothing.
C4_NotMine ==
    [][\A c \in Cpus :
        LET self == Irq(c)
        IN /\ (/\ pc[self] = "h_check"
               /\ pc'[self] # "h_check"
               /\ udev.mode = IGBUIO_LEGACY_INTR_MODE
               /\ PendingClear)
              => /\ pc'[self] = "h_pciunlock"
                 /\ loc'[self].ret = "IRQ_NONE"
                 /\ loc'[self].w = 0
                 /\ HwPattern' = HwPattern
                 /\ pci' = pci
                 /\ posted' = posted
                 /\ calls' = calls
           /\ (/\ pc[self] = "h_pciunlock"
               /\ pc'[self] # "h_pciunlock"
               /\ loc[self].ret = "IRQ_NONE")
              => /\ pc'[self] = "h_unlock"
                 /\ loc'[self] = loc[self]
                 /\ self \notin cfg'
                 /\ self \in lock'
                 /\ HwPattern' = HwPattern
           /\ (/\ pc[self] = "h_unlock"
               /\ pc'[self] # "h_unlock"
               /\ loc[self].ret = "IRQ_NONE")
              => /\ pc'[self] = "idle"
                 /\ loc[self].w = 0
                 /\ self \notin cfg'
                 /\ self \notin lock'
                 /\ HwPattern' = HwPattern
      ]_vars

\* a Legacy-mode invocation is about to return IRQ_NONE: it read the status
\* with the pending bit clear, wrote nothing and has released the guard
C4_Witness ==
    \E c \in Cpus :
        /\ pc[Irq(c)] = "h_unlock"
        /\ udev.mode = IGBUIO_LEGACY_INTR_MODE
        /\ loc[Irq(c)].ret = "IRQ_NONE"
        /\ BitAnd(loc[Irq(c)].status, PCI_STATUS_INTERRUPT) = 0
        /\ loc[Irq(c)].w = 0
        /\ Irq(c) \notin cfg

\* self's igbuio_set_interrupt_mask call returns in this step
MaskReturns(self) ==
    /\ pc[self] \in {"mask", "msix_mask", "msix_mirror", "cfg_write"}
    /\ pc'[self] \in {"h_handled", "c_pciunlock"}

\* C5: when a mask call returns and the call completed just before it had the
\* same enable value, the returning call issued no hardware write, and the
\* two together issued at most one.
C5_Idempotent ==
    [][\A self \in Ctx :
        (MaskReturns(self) /\ calls.last.valid /\ calls.last.en = (loc[self].state # 0))
        => /\ calls'.last.w = 0
           /\ calls.last.w + calls'.last.w <= 1
           /\ HwPattern' = HwPattern
      ]_vars

\* an enable call found the source unmasked in MSIX mode (the call before it
\* was an enable too, since attach and every disable leave the source masked)
\* and wrote nothing
C5_Witness ==
    /\ pc[Drv] = "bound"
    /\ udev.mode = IGBUIO_MSIX_INTR_MODE
    /\ calls.last.valid
    /\ calls.last.en
    /\ calls.last.w = 0
    /\ ~SourceMasked

\* the bits of the registers that are not the mask / INTx-disable bit
OtherBits(p) ==
    [cmd |-> BitAnd(p.cmd, Not16(PCI_COMMAND_INTX_DISABLE)),
     msix |-> [o \in DOMAIN p.msix |->
                  And32(p.msix[o], Not32(U32(PCI_MSIX_ENTRY_CTRL_MASKBIT)))]]

\* C6 as stated: whenever an enable call returns directly after a disable
\* call, the registers are exactly as they were before the disable call, from
\* any state; neither call changes any other bit.
C6_Original ==
    [][\A self \in Ctx :
        MaskReturns(self) =>
            /\ OtherBits(calls'.last.after) = OtherBits(calls'.last.before)
            /\ (loc[self].state # 0 /\ calls.last.valid /\ ~calls.last.en)
               => calls'.last.after = calls.last.before
      ]_vars

\* C6, amended: whenever an enable call returns directly after a disable call
\* that was made while the source was unmasked, the registers are exactly as
\* they were before the disable call; a disable call made while the source
\* was already masked changes nothing, and the enable after it leaves the
\* source unmasked; no call changes any bit other than the mask /
\* INTx-disable bit.
C6_RoundTrip ==
    [][\A self \in Ctx :
        MaskReturns(self) =>
            /\ OtherBits(calls'.last.after) = OtherBits(calls'.last.before)
            /\ (loc[self].state # 0 /\ calls.last.valid /\ ~calls.last.en)
               => /\ calls.last.after = calls'.last.before
                  /\ ~PatternMasked(calls.last.before)
                     => calls'.last.after = calls.last.before
                  /\ PatternMasked(calls.last.before)
                     => /\ calls.last.after = calls.last.before
                        /\ ~PatternMasked(calls'.last.after)
      ]_vars

\* an enable call has just undone a disable call that masked an unmasked MSI-X
\* source whose vector-control word has other bits set
C6_Witness ==
    /\ calls.last.valid
    /\ calls.last.rt
    /\ calls.last.w = 1
    /\ udev.mode = IGBUIO_MSIX_INTR_MODE
    /\ calls.last.after = HwPattern
    /\ ~SourceMasked
    /\ \E o \in VectorCtrlOffsets : hw.msix[o].hi # 0

\* C7: the config-space guard is held only by a context that holds the lock
\* (taken after it, released before it), and no register or mirror access of
\* the handler or the control path was made without both held.
C7_LockOrder ==
    /\ cfg \subseteq lock
    /\ ~unguarded

\* a handler invocation on its early IRQ_NONE exit still holds both while a
\* control request waits for the lock
C7_Witness ==
    \E c \in Cpus, d \in Cpus :
        /\ pc[Irq(c)] = "h_pciunlock"
        /\ loc[Irq(c)].ret = "IRQ_NONE"
        /\ Irq(c) \in cfg
        /\ Irq(c) \in lock
        /\ pc[Ctl(d)] = "c_lock"

\* C8: at most one context holds the config-space guard, and at most one
\* holds the lock.
C8_MutualExclusion ==
    /\ Cardinality(cfg) <= 1
    /\ Cardinality(lock) <= 1

\* a handler invocation holds the guard while a control request on another
\* CPU and a second handler invocation wait for the lock
C8_Witness ==
    \E c \in Cpus, d \in Cpus :
        /\ c # d
        /\ Irq(c) \in cfg
        /\ pc[Ctl(d)] = "c_lock"
        /\ pc[Irq(d)] = "h_lock"

\* C9: whenever the lock is free after some mask operation, no write is in
\* flight, every descriptor's mirrored mask bit equals the table's, and the
\* source is masked exactly if the operation that last began under the lock
\* was a disable: the state is the one a serial execution ending with that
\* operation leaves.
C9_Serializable ==
    (lock = {} /\ lastReq # "none" /\ udev.alloc = "live") =>
        /\ posted = <<>>
        /\ udev.mode = IGBUIO_MSIX_INTR_MODE =>
            \A k \in 1 .. Len(pci.msi_list) :
                LET d == pci.msi_list[k]
                IN /\ MaskBitSet(d.masked) = MaskBitSet(hw.msix[VectorCtrlOffset(d.entry_nr)])
                   /\ MaskBitSet(d.masked) = (lastReq = "disable")
        /\ udev.mode = IGBUIO_LEGACY_INTR_MODE =>
            IntxDisabled(hw.cmd) = (lastReq = "disable")

\* the handler masked a source that a control request had unmasked, a further
\* enable request is waiting for the lock, and the lock is free
C9_Witness ==
    /\ lock = {}
    /\ handled >= 1
    /\ lastReq = "disable"
    /\ calls.last.valid /\ ~calls.last.en /\ calls.last.w = 1
    /\ \E c \in Cpus : pc[Ctl(c)] = "c_lock" /\ loc[Ctl(c)].state # 0

RECURSIVE Count(_, _)
Count(r, q) == IF q = <<>> THEN 0 ELSE (IF Head(q) = r THEN 1 ELSE 0) + Count(r, Tail(q))

Resources == {"udev", "enable", "regions", "iomem", "msix"}

\* what the probe released is exactly what it acquired
Balanced == \A r \in Resources : Count(r, relLog) = Count(r, acqLog)

\* nothing the device can hold is held (mappings apart, which are counted)
NothingHeld ==
    /\ udev.alloc # "live"
    /\ ~pci.enabled
    /\ ~pci.regions
    /\ ~pci.msix_enabled
    /\ pci.msi_list = <<>>

ProbeReturned == pc[Drv] \in {"unbound", "bound"} /\ probe.run \in {"ok", "failed"}

\* C10 as stated: when attach returns after a failure at any stage, the
\* MSI-X allocation included, it has released exactly what it had acquired.
C10_Original ==
    (ProbeReturned /\ (probe.run = "failed" \/ probe.msix # 0)) =>
        /\ Balanced
        /\ badRel = {}

\* C10, amended: when attach returns after a failure at a fatal stage
\* (context allocation, device enable, DMA mask, region reservation, iomem
\* mapping, registration) it has released exactly what it had acquired and
\* holds nothing; a failed MSI-X allocation is not fatal: attach leaves no
\* MSI-X allocation behind, releases nothing else and completes holding the
\* context, the device enable, the regions and the mapping.
C10_UnwindComplete ==
    /\ (pc[Drv] = "unbound" /\ probe.run = "failed") =>
        /\ Balanced
        /\ badRel = {}
        /\ NothingHeld
        /\ probe.ret < 0
    /\ (pc[Drv] = "bound" /\ probe.msix # 0) =>
        /\ relLog = <<>>
        /\ badRel = {}
        /\ acqLog = <<"udev", "enable", "regions", "iomem">>
        /\ udev.alloc = "live" /\ pci.enabled /\ pci.regions
        /\ ~pci.msix_enabled /\ pci.msi_list = <<>>

\* registration failed in MSIX mode and the unwind released all five
\* resources attach had acquired
C10_Witness ==
    /\ pc[Drv] = "unbound"
    /\ probe.run = "failed"
    /\ probe.stage = "register"
    /\ probe.msix = 0
    /\ Len(acqLog) = 5
    /\ Len(relLog) = 5

Reverse(q) == [k \in 1 .. Len(q) |-> q[Len(q) + 1 - k]]

IsPrefix(p, q) == Len(p) <= Len(q) /\ \A k \in 1 .. Len(p) : p[k] = q[k]

\* the order in which the labels of lines 350-359 release what was acquired
UnwindOrder(acq) ==
    Seqn("iomem", Count("iomem", acq)) \o Seqn("msix", Count("msix", acq))
    \o Seqn("regions", Count("regions", acq)) \o Seqn("enable", Count("enable", acq))
    \o Seqn("udev", Count("udev", acq))

Unwinding == pc[Drv] \in {"fail_release_iomem", "fail_release_regions", "fail_disable",
                          "fail_free"}

DrvdataDangling == pci.drvdata = "udev" /\ udev.alloc # "live"

\* C12: when attach has returned after a fatal failure, the status it
\* returned is negative, the device's driver-data reference does not refer to
\* the freed context, and no handler or control entry point is registered.
C12_NoPartialContext ==
    (pc[Drv] = "unbound" /\ probe.run = "failed") =>
        /\ probe.ret < 0
        /\ ~DrvdataDangling
        /\ ~uio.registered

\* a handler invocation or a control request is executing
InFlight == \E self \in Ctx \ {Drv} : pc[self] # "idle"

\* everything a handler invocation or control request relies on is in place
ContextUsable ==
    /\ udev.alloc = "live"
    /\ pci.drvdata = "udev"
    /\ pci.enabled
    /\ pci.regions
    /\ udev.mode = IGBUIO_MSIX_INTR_MODE => (pci.msix_enabled /\ Len(pci.msi_list) > 0)

DetachReturned == pc[Drv] = "unbound" /\ probe.run = "ok"

\* C14: when detach of a successfully attached device has returned, every
\* region mapping created at attach has been unmapped, MSI-X is disabled, the
\* regions and the device enable are released, the context is freed, the
\* driver-data reference is cleared and nothing remains registered.
C14_DetachReleasesAll ==
    DetachReturned =>
        /\ pci.iomaps = 0
        /\ NothingHeld
        /\ pci.drvdata = "NULL"
        /\ ~uio.registered
        /\ badRel = {}

\* C15: detach invoked on a device with no completed attach does not fail
\* (it returns, it does not fault), does not touch a freed or absent context
\* and releases nothing that is not held.
C15_DetachIdempotent ==
    /\ pc[Drv] # "r_fault"
    /\ pc[Drv] = "unbound" => badRel = {}

\* the vector-control word the device holds for descriptor k of msi_list
TableWord(k) == hw.msix[VectorCtrlOffset(pci.msi_list[k].entry_nr)]

\* a context inside igbuio_msix_mask_irq for descriptor k, holding the lock,
\* between its writel and its mirror update, whose word is the one written
Updating(k, stage) ==
    \E self \in lock :
        /\ pc[self] = stage
        /\ loc[self].i = k
        /\ igbuio_msix_changed(loc[self].mask_bits, pci.msi_list[k].masked)

\* C16: in MSIX mode, whenever the lock is free no write is in flight and
\* every descriptor's mirror equals the vector-control word of its table
\* entry; a write is in flight only between the writel and the read-back of
\* the lock holder, while the mirror still has the old word; and the mirror
\* differs from the table only after the write has reached the device and
\* before the holder's mirror update, so the mirror never shows a word that
\* the device has not received.
C16_MirrorCoherent ==
    pci.msix_enabled =>
        /\ lock = {} =>
            /\ posted = <<>>
            /\ \A k \in 1 .. Len(pci.msi_list) : pci.msi_list[k].masked = TableWord(k)
        /\ posted # <<>> =>
            /\ Len(posted) = 1
            /\ \E k \in 1 .. Len(pci.msi_list) :
                /\ Updating(k, "msix_readl")
                /\ posted[1].off = VectorCtrlOffset(pci.msi_list[k].entry_nr)
        /\ \A k \in 1 .. Len(pci.msi_list) :
            pci.msi_list[k].masked # TableWord(k) =>
                /\ posted = <<>>
                /\ \E self \in lock :
                    /\ pc[self] \in {"msix_readl", "msix_mirror"}
                    /\ loc[self].i = k
                    /\ TableWord(k) = loc[self].mask_bits

\* a handler invocation has written and flushed the masked word and is about
\* to update the mirror, which still holds the unmasked word
C16_Witness ==
    \E c \in Cpus :
        /\ pc[Irq(c)] = "msix_mirror"
        /\ Irq(c) \in lock
        /\ posted = <<>>
        /\ MaskBitSet(TableWord(1))
        /\ ~MaskBitSet(pci.msi_list[1].masked)

\* context self is about to execute line 148 with a value of old that is not
\* the command register's: its pci_read_config_dword failed
ReadFailed(self) == pc[self] = "cfg_write" /\ loc[self].old # hw.cmd

\* C17: when the config-space read of a Legacy-mode mask operation has
\* failed, the rest of the operation issues no config-space write and leaves
\* the command register as it was, and the device stays attached: neither
\* the registration nor the outcome of attach changes.
C17_NotApplied ==
    [][\A self \in Ctx :
        (ReadFailed(self) /\ pc'[self] # pc[self]) =>
            /\ loc'[self].w = 0 \/ (calls'.last.valid /\ calls'.last.w = 0)
            /\ hw'.cmd = hw.cmd
            /\ uio' = uio
            /\ probe' = probe]_vars

Slots == 0 .. (MAX_UIO_MAPS - 1)

FullyUnmapped(m) == m = UioMem0

FullyMapped(m) ==
    /\ m.addr # 0
    /\ m.internal_addr # 0
    /\ m.size # 0
    /\ m.name # ""
    /\ m.memtype = UIO_MEM_PHYS

\* what igbuio_pci_setup_iomem answers for slot n in the current state when
\* ioremap, if called, returns va
SetupIomem(n, va) == igbuio_pci_setup_iomem(udev.mem, n, hw.bar0, "config", va)

\* C18: for the device's BAR and every slot, igbuio_pci_setup_iomem fails
\* without calling ioremap when the base or the length is zero, fails when
\* ioremap returns NULL, and in both cases leaves the region table as it
\* was; otherwise it records all five fields in slot n alone. In every state
\* each region descriptor of a live context is fully unmapped or fully
\* mapped, and after a failed mapping step of attach slot 0 is unmapped.
C18_MapRegion ==
    /\ \A n \in Slots, va \in {0, hw.bar0.start + hw.bar0.len} :
        LET r == SetupIomem(n, va)
        IN /\ (hw.bar0.start = 0 \/ hw.bar0.len = 0) =>
                (r.ret # 0 /\ ~r.requested /\ r.mem = udev.mem)
           /\ (hw.bar0.start # 0 /\ hw.bar0.len # 0 /\ va = 0) =>
                (r.ret # 0 /\ r.requested /\ r.mem = udev.mem)
           /\ (hw.bar0.start # 0 /\ hw.bar0.len # 0 /\ va # 0) =>
                /\ r.ret = 0
                /\ FullyMapped(r.mem[n])
                /\ r.mem[n].addr = hw.bar0.start /\ r.mem[n].size = hw.bar0.len
                /\ r.mem[n].internal_addr = va
                /\ \A k \in Slots \ {n} : r.mem[k] = udev.mem[k]
    /\ \A n \in Slots : FullyUnmapped(udev.mem[n]) \/ FullyMapped(udev.mem[n])
    /\ (pc[Drv] = "fail_release_regions" /\ probe.stage = "iomem") =>
        /\ \A n \in Slots : FullyUnmapped(udev.mem[n])
        /\ Count("iomem", acqLog) = 0

\* attach failed at the mapping step although BAR 0 is present: ioremap was
\* called and returned NULL, and the region table is still empty
C18_Witness ==
    /\ pc[Drv] = "fail_release_regions"
    /\ probe.stage = "iomem"
    /\ hw.bar0.start # 0 /\ hw.bar0.len # 0
    /\ SetupIomem(0, 0).requested
    /\ FullyUnmapped(udev.mem[0])

\* some started handler invocation, control request or attach-time control
\* call can execute its next step
SomeStepEnabled == \E self \in Ctx : ENABLED CtxNext(self)

Started(self) == pc[self] # "idle"

Returned(self) == pc[self] = "idle" /\ self \notin lock /\ self \notin cfg

\* C19: no reachable state is a deadlock: while a handler invocation or a
\* control request is in progress one of them can take its next step, and a
\* process context holding the lock is never preempted by the handler on
\* its CPU; and under fair scheduling every started handler invocation and
\* every started control request returns, holding neither the guard nor the
\* lock.
C19_Completion ==
    /\ [](InFlight => SomeStepEnabled)
    /\ [](\A c \in Cpus : Ctl(c) \in lock => pc[Irq(c)] = "idle")
    /\ \A self \in Ctx \ {Drv} : Started(self) ~> Returned(self)

\* a control request waits for the lock that the handler on another CPU
\* holds, while the handler has also been invoked on the request's own CPU
\* and waits for the lock too
C19_Witness ==
    \E c \in Cpus, d \in Cpus :
        /\ c # d
        /\ pc[Ctl(c)] = "c_lock"
        /\ pc[Irq(c)] = "h_lock"
        /\ Irq(d) \in lock
        /\ Irq(d) \in cfg

\* the attach-time call igbuio_pci_irqcontrol(info, 0) is in progress
AttachMasking ==
    pc[Drv] \in {"c_lock", "c_pcilock", "mask", "msix_mask", "msix_readl", "msix_mirror",
                 "cfg_read", "cfg_write", "c_pciunlock", "c_unlock"}

\* user space has not yet issued an enable request since the attach
BeforeFirstEnable == uio.registered /\ ~probe.enabled

\* C20 as stated: attach has masked the source before it registers, the
\* source stays masked until user space issues its first enable request, and
\* before that request no interrupt is delivered to user space (the handler
\* does not decide IRQ_HANDLED).
C20_Original ==
    /\ pc[Drv] = "p_register" => SourceMasked
    /\ BeforeFirstEnable => (SourceMasked /\ handled = 0)

\* C20, amended: attach makes its disable call after the mode is selected
\* and before the registration, under both locks; when it registers the
\* source is masked, and the source stays masked until user space issues its
\* first enable request. In MSIX mode the handler decides nothing before
\* that request; in Legacy mode, on the shared line, it can decide
\* IRQ_HANDLED before it, with the source masked all the while.
C20_MaskedAtAttach ==
    /\ AttachMasking => (~uio.registered /\ ModeSelected /\ loc[Drv].state = 0
                         /\ udev.irq = igbuio_irq_info(udev).irq)
    /\ pc[Drv] = "p_register" =>
        /\ SourceMasked
        /\ calls.last.valid /\ ~calls.last.en
        /\ ~unguarded
        /\ lock = {} /\ cfg = {}
        /\ ~uio.registered
    /\ BeforeFirstEnable => SourceMasked
    /\ (BeforeFirstEnable /\ handled >= 1) => udev.mode = IGBUIO_LEGACY_INTR_MODE

\* a Legacy-mode device is attached, user space has issued no enable
\* request, the source is still masked as attach left it, and the handler
\* has decided IRQ_HANDLED
C20_Witness ==
    /\ BeforeFirstEnable
    /\ pc[Drv] = "bound"
    /\ udev.mode = IGBUIO_LEGACY_INTR_MODE
    /\ SourceMasked
    /\ handled >= 1

====
